---- MODULE Spec2Model ----
(***************************************************************************)
(* Timeline consolidation and gap interpolation of the ZERA price tracker. *)
(*                                                                         *)
(* The pipeline of src/main.py (lines 57-58) is modelled: the per-pool     *)
(* OHLCV lists are merged by create_unified_dataframe and the merged       *)
(* frame is passed to interpolate_migration_gaps; the interpolator is then *)
(* applied again to its own output.  interpolate_migration_gaps is split   *)
(* at its loop over config.MIGRATION_DATES: one step for lines 80-84, one  *)
(* step per event (lines 87-140) and one step for lines 142-145.           *)
(*                                                                         *)
(* Strings that the program concatenates (pool_name) are sequences of      *)
(* their pieces.                                                           *)
(* Numbers: Python floats are modelled as exact rationals <<n, d>> in      *)
(* lowest terms with d > 0; the non-finite values a float division by zero *)
(* produces in pandas are <<0,0>> (NaN), <<1,0>> (inf) and <<-1,0>> (-inf).*)
(***************************************************************************)
EXTENDS Integers, Sequences, FiniteSets, Bags, TLC

VARIABLES
    all_pool_data,    \* argument of create_unified_dataframe: <<[pool_name, data]>> in dict
                      \* order; <<>> once the call has returned (main.py never reads it again)
    MIGRATION_DATES,  \* config.MIGRATION_DATES: <<[event_name, timestamp]>> in dict order
    hours_per_point,  \* argument of interpolate_migration_gaps
    df,               \* the DataFrame being built: a sequence of rows
    pc,               \* position of the pipeline
    event_index,      \* position of the loop of line 87 (1-based)
    last_before,      \* local of interpolate_migration_gaps: <<>> while unbound, else <<row>>
    first_after,      \* local of interpolate_migration_gaps: <<>> while unbound, else <<row>>
    returned,         \* what the successive calls of interpolate_migration_gaps returned:
                      \* the rows of each returned frame, as a bag (their order is in df)
    stats,            \* what get_summary_stats returned: <<>> while it has not, else <<dict>>
    pool_df,          \* visualizer: the frame handed to the extremum detectors
    window,           \* visualizer: peak_window
    prominence_threshold,  \* visualizer: argument of the detectors
    peaks,            \* visualizer: result of find_local_peaks
    troughs,          \* visualizer: result of find_local_troughs
    all_markers,      \* visualizer: argument of filter_by_minimum_distance
    min_distance_days,     \* visualizer: argument of filter_by_minimum_distance
    filtered_markers, \* visualizer: result of filter_by_minimum_distance
    mpc,              \* position of the marker computation of create_price_chart
    saved_input,      \* a second run: the all_pool_data both runs are given
    first_timeline,   \* a second run: <<>>, or <<the frame the first run returned>>
    fpc,              \* fetcher: position of fetch_all_pools
    pool_index,       \* fetcher: position of the loop of fetcher.py:53 (1-based)
    attempt,          \* fetcher: loop variable of fetch_pool_data (line 25)
    retries,          \* fetcher: argument of fetch_pool_data
    fetch_log,        \* fetcher: the requests, waits and failures so far, <<pool, event>>
    fetched,          \* fetcher: <<>>, or <<what the last fetch_pool_data call returned>>
    caller            \* fetcher: who called fetch_pool_data

\* the variables of the consolidation pipeline, of the summary and of the chart markers
pipeline_vars == <<all_pool_data, MIGRATION_DATES, hours_per_point, df, pc, event_index,
                   last_before, first_after, returned>>
marker_vars == <<pool_df, window, prominence_threshold, peaks, troughs, all_markers,
                 min_distance_days, filtered_markers, mpc>>
rerun_vars == <<saved_input, first_timeline>>
fetch_vars == <<fpc, pool_index, attempt, retries, fetch_log, fetched, caller>>
vars == <<all_pool_data, MIGRATION_DATES, hours_per_point, df, pc, event_index,
          last_before, first_after, returned, stats, pool_df, window,
          prominence_threshold, peaks, troughs, all_markers, min_distance_days,
          filtered_markers, mpc, saved_input, first_timeline, fpc, pool_index,
          attempt, retries, fetch_log, fetched, caller>>

----------------------------------------------------------------------------
(* Bounds of the model *)

MaxTick == 4          \* input timestamps are 0, TickSeconds, ..., MaxTick * TickSeconds
MaxRows == 2          \* total number of OHLCV entries over all pools
MaxRuns == 2          \* calls of interpolate_migration_gaps in a row

(* Program constants *)

SecondsPerHour == 3600          \* consolidator.py:100, 109
DefaultHoursPerPoint == 6       \* consolidator.py:64

----------------------------------------------------------------------------
(* Rational arithmetic standing for Python float arithmetic *)

Abs(x) == IF x < 0 THEN -x ELSE x

RECURSIVE GCD(_, _)
GCD(a, b) == IF b = 0 THEN a ELSE GCD(b, a % b)

Rat(n, d) ==
    IF n = 0 /\ d = 0 THEN <<0, 0>>
    ELSE LET g == GCD(Abs(n), Abs(d))
             s == IF d < 0 THEN -1 ELSE 1
         IN  <<(s * n) \div g, (s * d) \div g>>

Q(n) == <<n, 1>>
NaN == <<0, 0>>
IsFinite(a) == a[2] # 0

Add(a, b) == Rat(a[1] * b[2] + b[1] * a[2], a[2] * b[2])
Sub(a, b) == Rat(a[1] * b[2] - b[1] * a[2], a[2] * b[2])
Mul(a, b) == Rat(a[1] * b[1], a[2] * b[2])
\* float division as numpy performs it: x/0 is inf, -inf or NaN, never an exception
Div(a, b) ==
    IF b[1] = 0
    THEN <<(IF a[1] > 0 THEN 1 ELSE IF a[1] < 0 THEN -1 ELSE 0), 0>>
    ELSE Rat(a[1] * b[2], a[2] * b[1])
Lt(a, b) == a[1] * b[2] < b[1] * a[2]
Le(a, b) == a[1] * b[2] <= b[1] * a[2]
AbsQ(a) == <<Abs(a[1]), a[2]>>
\* int(x) of a non-negative float: truncation
IntOf(a) == a[1] \div a[2]

----------------------------------------------------------------------------
(* Configuration (src/config.py) *)

PoolNames == <<"mon3y", "zera_pool2", "zera_pool3">>

POOLS ==
    [p \in {"mon3y", "zera_pool2", "zera_pool3"} |->
        CASE p = "mon3y"      -> [address |-> "95AT5r4i", token_symbol |-> "M0N3Y"]
          [] p = "zera_pool2" -> [address |-> "Nn9VMHJT", token_symbol |-> "ZERA"]
          [] p = "zera_pool3" -> [address |-> "6oUJD1EH", token_symbol |-> "ZERA"]]

EventNames == <<"mon3y_to_zera", "zera_pool2_to_pool3">>

----------------------------------------------------------------------------
(* Inputs *)

\* grid of the input timestamps: half the default sampling interval, so that gaps
\* below, at, between multiples of and at multiples of the interval all occur
TickSeconds == (DefaultHoursPerPoint * SecondsPerHour) \div 2
Ticks == 0 .. MaxTick
Ts(k) == k * TickSeconds

\* the OHLCV values of the entry of tick k: (open, high, low, close, volume).  One
\* market is traded in every pool, so the candle depends on the time alone; opens,
\* closes and volumes of 0 occur.
Max2(a, b) == IF a >= b THEN a ELSE b
Min2(a, b) == IF a <= b THEN a ELSE b
CandleOpen(k) == (2 * k) % 3
CandleClose(k) == (3 * k + 1) % 5
Candle(k) ==
    <<Q(CandleOpen(k)),
      Q(Max2(CandleOpen(k), CandleClose(k)) + 1),
      Q(Min2(CandleOpen(k), CandleClose(k))),
      Q(CandleClose(k)),
      Q(10 * ((k + 1) % 3))>>

RECURSIVE AscendingSeq(_)
AscendingSeq(S) ==
    IF S = {} THEN <<>>
    ELSE LET m == CHOOSE x \in S : \A y \in S : x <= y
         IN  <<m>> \o AscendingSeq(S \ {m})

\* the ohlcv_list of one pool: raw entries [timestamp, open, high, low, close, volume],
\* timestamps unique within the pool
OhlcvLists ==
    { LET ks == AscendingSeq(T)
      IN  [i \in 1 .. Len(ks) |-> <<Ts(ks[i])>> \o Candle(ks[i])] :
      T \in {T \in SUBSET Ticks : Cardinality(T) <= MaxRows} }

\* the API response of one pool; a failed fetch is recorded as data = None (fetcher.py:64-68)
None == [is_none |-> TRUE, ohlcv_list |-> <<>>]
Response(l) == [is_none |-> FALSE, ohlcv_list |-> l]

PoolOrders ==
    { o \in [1 .. Len(PoolNames) -> 1 .. Len(PoolNames)] :
        \A i, j \in 1 .. Len(PoolNames) : i # j => o[i] # o[j] }

AllPoolDataInputs ==
    { [i \in 1 .. Len(PoolNames) |->
          [pool_name |-> PoolNames[o[i]],
           info      |-> POOLS[PoolNames[o[i]]],
           data      |-> IF ls[o[i]] = <<>> THEN None ELSE Response(ls[o[i]])]] :
      <<o, ls>> \in { <<o, ls>> \in PoolOrders \X (OhlcvLists \X OhlcvLists \X OhlcvLists) :
                        Len(ls[1]) + Len(ls[2]) + Len(ls[3]) <= MaxRows } }

\* the two configured events, in chronological order, cut over anywhere on the grid
\* (a cutover at or before the first row, or after the last one, leaves one side empty)
MigrationInputs ==
    { <<[event_name |-> EventNames[1], timestamp |-> Ts(a)],
        [event_name |-> EventNames[2], timestamp |-> Ts(b)]>> :
      <<a, b>> \in { <<a, b>> \in (1 .. MaxTick) \X (1 .. MaxTick) : a <= b } }

\* main.py:58 calls interpolate_migration_gaps with the default
HoursPerPointInputs == {DefaultHoursPerPoint}

----------------------------------------------------------------------------
(* src/fetcher.py: parse_ohlcv_data *)

ParseOhlcvData(pool_data) ==
    IF pool_data.is_none THEN <<>>
    ELSE [i \in 1 .. Len(pool_data.ohlcv_list) |->
            LET entry == pool_data.ohlcv_list[i]
            IN  [timestamp |-> entry[1], open |-> entry[2], high |-> entry[3],
                 low |-> entry[4], close |-> entry[5], volume |-> entry[6]]]

----------------------------------------------------------------------------
(* pandas: DataFrame.sort_values('timestamp').reset_index(drop=True).        *)
(* The default kind is 'quicksort', which pandas documents as not stable:   *)
(* rows of equal timestamp may come out in any order.                       *)

RECURSIVE SortedFrom(_, _)
SortedFrom(rows, I) ==
    IF I = {} THEN {<<>>}
    ELSE LET m == CHOOSE i \in I : \A j \in I : rows[i].timestamp <= rows[j].timestamp
             G == {i \in I : rows[i].timestamp = rows[m].timestamp}
         IN  UNION { {<<rows[i]>> \o t : t \in SortedFrom(rows, I \ {i})} : i \in G }

\* variant: the frame is left in the order it has
SortValuesUnsorted(rows) == {rows}

SortValues(rows) == SortedFrom(rows, DOMAIN rows)

----------------------------------------------------------------------------
(* src/consolidator.py: create_unified_dataframe *)

RECURSIVE AllRecords(_)
AllRecords(pools) ==
    IF pools = <<>> THEN <<>>
    ELSE LET pool == Head(pools)
             ohlcv_list == ParseOhlcvData(pool.data)
             records ==
                 IF pool.data.is_none THEN <<>>
                 ELSE [i \in 1 .. Len(ohlcv_list) |->
                         [timestamp    |-> ohlcv_list[i].timestamp,
                          date         |-> <<"fromtimestamp", ohlcv_list[i].timestamp>>,
                          open         |-> ohlcv_list[i].open,
                          high         |-> ohlcv_list[i].high,
                          low          |-> ohlcv_list[i].low,
                          close        |-> ohlcv_list[i].close,
                          volume       |-> ohlcv_list[i].volume,
                          pool_name    |-> <<pool.pool_name>>,
                          pool_address |-> pool.info.address,
                          token_symbol |-> pool.info.token_symbol]]
         IN  records \o AllRecords(Tail(pools))

\* lines 55-56: the calculated fields
\* variant: a percentage of 0 where open is 0
WithPriceChangeZeroDefault(r) ==
    [timestamp    |-> r.timestamp,
     date         |-> r.date,
     open         |-> r.open,
     high         |-> r.high,
     low          |-> r.low,
     close        |-> r.close,
     volume       |-> r.volume,
     pool_name    |-> r.pool_name,
     pool_address |-> r.pool_address,
     token_symbol |-> r.token_symbol,
     price_change     |-> Sub(r.close, r.open),
     price_change_pct |-> IF r.open = Q(0) THEN Q(0)
                          ELSE Mul(Div(Sub(r.close, r.open), r.open), Q(100))]

WithPriceChange(r) ==
    [timestamp    |-> r.timestamp,
     date         |-> r.date,
     open         |-> r.open,
     high         |-> r.high,
     low          |-> r.low,
     close        |-> r.close,
     volume       |-> r.volume,
     pool_name    |-> r.pool_name,
     pool_address |-> r.pool_address,
     token_symbol |-> r.token_symbol,
     price_change     |-> Sub(r.close, r.open),
     price_change_pct |-> Mul(Div(Sub(r.close, r.open), r.open), Q(100))]

----------------------------------------------------------------------------
(* src/consolidator.py: interpolate_migration_gaps *)

\* line 84 (and the is_interpolated entry of a new row): the flag column
WithFlagZeroVolume(r, flag) ==      \* variant: the volume is cleared with the flag
    [timestamp    |-> r.timestamp,
     date         |-> r.date,
     open         |-> r.open,
     high         |-> r.high,
     low          |-> r.low,
     close        |-> r.close,
     volume       |-> <<0, 1>>,
     pool_name    |-> r.pool_name,
     pool_address |-> r.pool_address,
     token_symbol |-> r.token_symbol,
     price_change     |-> r.price_change,
     price_change_pct |-> r.price_change_pct,
     is_interpolated  |-> flag]

WithFlag(r, flag) ==
    [timestamp    |-> r.timestamp,
     date         |-> r.date,
     open         |-> r.open,
     high         |-> r.high,
     low          |-> r.low,
     close        |-> r.close,
     volume       |-> r.volume,
     pool_name    |-> r.pool_name,
     pool_address |-> r.pool_address,
     token_symbol |-> r.token_symbol,
     price_change     |-> r.price_change,
     price_change_pct |-> r.price_change_pct,
     is_interpolated  |-> flag]

IsReal(r) == r.is_interpolated = FALSE

\* line 89
RealDataUnfiltered(frame) == frame      \* variant: synthetic rows are not filtered out

RealData(frame) == SelectSeq(frame, IsReal)

\* lines 92-93
BeforeRows(real_data, migration_ts) ==
    LET Before(r) == r.timestamp < migration_ts IN SelectSeq(real_data, Before)
AfterRows(real_data, migration_ts) ==
    LET After(r) == r.timestamp >= migration_ts IN SelectSeq(real_data, After)

\* lines 100-101
TimeGapSeconds(lb, fa) == fa.timestamp - lb.timestamp
TimeGapHours(lb, fa) == Div(Q(fa.timestamp - lb.timestamp), Q(SecondsPerHour))

\* line 104
GapExceedsOrEquals(time_gap_hours, hpp) == Le(Q(hpp), time_gap_hours)   \* variant: >=

GapExceeds(time_gap_hours, hpp) == Lt(Q(hpp), time_gap_hours)

\* line 108
\* variant: one point fewer
NumPointsLessOne(time_gap_hours, hpp) == IntOf(Div(time_gap_hours, Q(hpp))) - 1

NumPoints(time_gap_hours, hpp) == IntOf(Div(time_gap_hours, Q(hpp)))

\* line 109
IntervalSeconds(hpp) == hpp * SecondsPerHour

\* line 112
InterpRatio(i, interval_seconds, time_gap_seconds) ==
    Div(Q(i * interval_seconds), Q(time_gap_seconds))

\* line 113
InterpTs(lb, i, interval_seconds) == lb.timestamp + (i * interval_seconds)

\* line 116
InterpPriceFromZero(lb, fa, ratio) == Mul(ratio, fa.close)   \* variant: last_before.close dropped

InterpPrice(lb, fa, ratio) == Add(lb.close, Mul(ratio, Sub(fa.close, lb.close)))

\* line 119
VolumeRatio(ratio) == Sub(Q(1), Mul(Q(2), AbsQ(Sub(ratio, Rat(1, 2)))))

\* line 120
InterpVolume(lb, fa, ratio) ==
    Mul(Mul(Add(lb.volume, fa.volume), VolumeRatio(ratio)), Rat(3, 10))

\* lines 112-136
NewRow(lb, fa, i, hpp) ==
    LET interval_seconds == IntervalSeconds(hpp)
        ratio        == InterpRatio(i, interval_seconds, TimeGapSeconds(lb, fa))
        interp_ts    == InterpTs(lb, i, interval_seconds)
        interp_price == InterpPrice(lb, fa, ratio)
    IN  [timestamp    |-> interp_ts,
         date         |-> <<"fromtimestamp", interp_ts>>,
         open         |-> interp_price,
         high         |-> Mul(interp_price, Rat(1001, 1000)),
         low          |-> Mul(interp_price, Rat(999, 1000)),
         close        |-> interp_price,
         volume       |-> InterpVolume(lb, fa, ratio),
         pool_name    |-> lb.pool_name \o <<"_to_">> \o fa.pool_name,
         pool_address |-> lb.pool_address,
         token_symbol |-> lb.token_symbol,
         price_change     |-> Q(0),
         price_change_pct |-> Q(0),
         is_interpolated  |-> TRUE]

\* lines 104-138: the rows one event appends to df
NewRows(lb, fa, hpp) ==
    IF GapExceeds(TimeGapHours(lb, fa), hpp)
    THEN [i \in 1 .. NumPoints(TimeGapHours(lb, fa), hpp) |-> NewRow(lb, fa, i, hpp)]
    ELSE <<>>

----------------------------------------------------------------------------
(* The pipeline *)

\* the rows of a frame, without their order
FrameBag(frame) ==
    [r \in {frame[i] : i \in DOMAIN frame} |->
        Cardinality({i \in DOMAIN frame : frame[i] = r})]

\* no second run is made, nothing is being fetched
RerunIdle == saved_input = <<>> /\ first_timeline = <<>>
FetchIdle ==
    /\ fpc = "idle"
    /\ pool_index = 1
    /\ attempt = 0
    /\ retries = 0
    /\ fetch_log = <<>>
    /\ fetched = <<>>
    /\ caller = "none"

\* no chart is being drawn
MarkersIdle ==
    /\ pool_df = <<>>
    /\ window = 0
    /\ prominence_threshold = <<0, 1>>
    /\ peaks = <<>>
    /\ troughs = <<>>
    /\ all_markers = <<>>
    /\ min_distance_days = <<0, 1>>
    /\ filtered_markers = <<>>
    /\ mpc = "idle"

Init ==
    /\ all_pool_data \in AllPoolDataInputs
    /\ MIGRATION_DATES \in MigrationInputs
    /\ hours_per_point \in HoursPerPointInputs
    /\ df = <<>>
    /\ pc = "start"
    /\ event_index = 1
    /\ last_before = <<>>
    /\ first_after = <<>>
    /\ returned = <<>>
    /\ stats = <<>>
    /\ MarkersIdle
    /\ RerunIdle
    /\ FetchIdle

\* create_unified_dataframe, lines 12-61.  With no record at all the frame has no
\* 'timestamp' column and sort_values raises KeyError.
CreateUnifiedDataframe ==
    /\ pc = "start"
    /\ LET all_records == AllRecords(all_pool_data)
       IN  IF all_records = <<>>
           THEN /\ pc' = "raised"
                /\ df' = df
           ELSE /\ pc' = "merged"
                /\ \E sorted \in SortValues(all_records) :
                       df' = [i \in 1 .. Len(sorted) |-> WithPriceChange(sorted[i])]
    /\ all_pool_data' = <<>>
    /\ UNCHANGED <<MIGRATION_DATES, hours_per_point, event_index,
                   last_before, first_after, returned>>
    /\ UNCHANGED <<stats, marker_vars, rerun_vars, fetch_vars>>

\* interpolate_migration_gaps, lines 80-84, called on the merged frame (main.py:58)
\* or on the frame the previous call returned
InterpolateBegin ==
    /\ pc \in {"merged", "returned"}
    /\ Len(returned) < MaxRuns
    /\ \E sorted \in SortValues(df) :
           df' = [i \in 1 .. Len(sorted) |-> WithFlag(sorted[i], FALSE)]
    /\ pc' = "loop"
    /\ event_index' = 1
    /\ last_before' = <<>>
    /\ first_after' = <<>>
    /\ UNCHANGED <<all_pool_data, MIGRATION_DATES, hours_per_point, returned>>
    /\ UNCHANGED <<stats, marker_vars, rerun_vars, fetch_vars>>

\* one iteration of the loop of line 87
InterpolateEvent ==
    /\ pc = "loop"
    /\ event_index <= Len(MIGRATION_DATES)
    /\ LET migration_ts == MIGRATION_DATES[event_index].timestamp
           real_data    == RealData(df)
           before       == BeforeRows(real_data, migration_ts)
           after        == AfterRows(real_data, migration_ts)
       IN  IF before # <<>> /\ after # <<>>
           THEN /\ last_before' = <<before[Len(before)]>>
                /\ first_after' = <<after[1]>>
                /\ df' = df \o NewRows(before[Len(before)], after[1], hours_per_point)
           ELSE UNCHANGED <<last_before, first_after, df>>
    /\ event_index' = event_index + 1
    /\ UNCHANGED <<all_pool_data, MIGRATION_DATES, hours_per_point, pc, returned>>
    /\ UNCHANGED <<stats, marker_vars, rerun_vars, fetch_vars>>

\* lines 142-145
InterpolateReturn ==
    /\ pc = "loop"
    /\ event_index > Len(MIGRATION_DATES)
    /\ \E sorted \in SortValues(df) :
           /\ df' = sorted
           /\ returned' = Append(returned, FrameBag(sorted))
    /\ pc' = "returned"
    /\ UNCHANGED <<all_pool_data, MIGRATION_DATES, hours_per_point, event_index,
                   last_before, first_after>>
    /\ UNCHANGED <<stats, marker_vars, rerun_vars, fetch_vars>>

Next ==
    \/ CreateUnifiedDataframe
    \/ InterpolateBegin
    \/ InterpolateEvent
    \/ InterpolateReturn

Spec == Init /\ [][Next]_vars

----------------------------------------------------------------------------
(* Vocabulary of the properties *)

IsSynthetic(r) == r.is_interpolated = TRUE
SyntheticPoints(bag) == {r \in DOMAIN bag : IsSynthetic(r)}
Sorted(frame) ==
    \A i, j \in DOMAIN frame : i < j => frame[i].timestamp <= frame[j].timestamp

\* a step of the loop of line 87, and the event it handles
EventStep == pc = "loop" /\ event_index' = event_index + 1
Cutover == MIGRATION_DATES[event_index].timestamp
RealRows == {df[i] : i \in {i \in DOMAIN df : df[i].is_interpolated = FALSE}}
RealBefore == {r \in RealRows : r.timestamp < Cutover}
RealAfter == {r \in RealRows : r.timestamp >= Cutover}
HasEndpoints == RealBefore # {} /\ RealAfter # {}
LastBeforeTs ==
    CHOOSE t \in {r.timestamp : r \in RealBefore} : \A r \in RealBefore : r.timestamp <= t
FirstAfterTs ==
    CHOOSE t \in {r.timestamp : r \in RealAfter} : \A r \in RealAfter : t <= r.timestamp
GapSeconds == FirstAfterTs - LastBeforeTs
Interval == hours_per_point * 3600
\* the rows the step appended
Appended == SubSeq(df', Len(df) + 1, Len(df'))
Extends == Len(df') >= Len(df) /\ SubSeq(df', 1, Len(df)) = df

----------------------------------------------------------------------------
(* Properties *)

\* C1 (as claimed): applying interpolate_migration_gaps to its own output yields the
\* same set of points flagged synthetic as applying it once.
C1_SameSyntheticPoints ==
    (pc = "returned" /\ Len(returned) >= 2)
        => SyntheticPoints(returned[2]) = SyntheticPoints(returned[1])

\* C2: a further run of interpolate_migration_gaps on a frame it has already processed
\* adds no rows: each later call returns as many rows as the call before it.
C2_RerunAddsNoRows ==
    \A k \in 2 .. Len(returned) :
        BagCardinality(returned[k]) = BagCardinality(returned[k - 1])

C2_Witness ==
    /\ pc = "returned"
    /\ Len(returned) = 2
    /\ SyntheticPoints(returned[1]) # {}

\* C3: the frame create_unified_dataframe returns and the frame
\* interpolate_migration_gaps returns are non-decreasing in timestamp, whatever the
\* iteration order of the sources.
C3_Ordered ==
    pc \in {"merged", "returned"} => Sorted(df)

\* a returned frame where the appended synthetic rows had to be moved before real
\* ones, built from rows of two pools
C3_Witness ==
    /\ pc = "returned"
    /\ \E i, j \in DOMAIN df :
           /\ i < j
           /\ IsSynthetic(df[i])
           /\ ~IsSynthetic(df[j])
           /\ df[i].timestamp < df[j].timestamp
    /\ \E i, j \in DOMAIN df :
           /\ df[i].pool_name = <<"zera_pool3">>
           /\ df[j].pool_name = <<"mon3y">>
           /\ df[i].timestamp < df[j].timestamp

\* C4: an event whose real endpoints are at most hours_per_point hours apart (equality
\* included) adds no row, and the loop goes on.
C4_NoPointsAtOrBelowThreshold ==
    [][(EventStep /\ HasEndpoints /\ GapSeconds <= Interval)
          => (df' = df /\ pc' = "loop")]_vars

\* the first event has found the endpoints 0 and 21600 with hours_per_point = 6
C4_Witness ==
    /\ pc = "loop"
    /\ event_index = 2
    /\ Len(returned) = 0
    /\ hours_per_point = 6
    /\ last_before # <<>>
    /\ last_before[1].timestamp = 0
    /\ first_after[1].timestamp = 21600
    /\ \A i \in DOMAIN df : ~IsSynthetic(df[i])

\* C5 (as claimed): with last_before at 0, first_after at 43200 and hours_per_point 6,
\* exactly one point is interpolated, at 21600, with ratio 0.5 and volume ratio 1.0
\* (price halfway between the closes, volume 0.3 times the sum of the volumes).
C5_ExactlyOnePoint ==
    (/\ pc = "loop"
     /\ event_index = 2
     /\ Len(returned) = 0
     /\ hours_per_point = 6
     /\ last_before # <<>>
     /\ last_before[1].timestamp = 0
     /\ first_after[1].timestamp = 43200)
        => LET synth == {i \in DOMAIN df : IsSynthetic(df[i])}
           IN  /\ Cardinality(synth) = 1
               /\ \A i \in synth :
                      /\ df[i].timestamp = 21600
                      /\ Mul(df[i].close, Q(2))
                           = Add(last_before[1].close, first_after[1].close)
                      /\ Mul(df[i].volume, Q(10))
                           = Mul(Add(last_before[1].volume, first_after[1].volume), Q(3))

\* C6: an event whose real gap exceeds hours_per_point hours appends
\* floor(gap_hours / hours_per_point) rows, the i-th at
\* last_before.timestamp + i * hours_per_point * 3600.
C6_PointCountAndTimestamps ==
    [][(EventStep /\ HasEndpoints /\ GapSeconds > Interval)
          => /\ Extends
             /\ Len(Appended) = GapSeconds \div Interval
             /\ \A i \in 1 .. Len(Appended) :
                    /\ Appended[i].timestamp = LastBeforeTs + i * Interval
                    /\ IsSynthetic(Appended[i])]_vars

\* the first event has bridged the gap from 0 to 32400 (9 h): one point, at 21600
C6_Witness ==
    /\ pc = "loop"
    /\ event_index = 2
    /\ Len(returned) = 0
    /\ last_before # <<>>
    /\ last_before[1].timestamp = 0
    /\ first_after[1].timestamp = 32400
    /\ \E i \in DOMAIN df : IsSynthetic(df[i]) /\ df[i].timestamp = 21600

\* C7 (as claimed): the ratio i * hours_per_point * 3600 / gap_seconds of every
\* synthetic point lies strictly between 0 and 1: its timestamp lies strictly between
\* those of last_before and first_after.
C7_RatioStrictlyInside ==
    [][(EventStep /\ HasEndpoints)
          => \A i \in 1 .. Len(Appended) :
                 /\ 0 < i * Interval
                 /\ i * Interval < GapSeconds
                 /\ LastBeforeTs < Appended[i].timestamp
                 /\ Appended[i].timestamp < FirstAfterTs]_vars

\* C8: the endpoints of an event are real rows: last_before is a real row of greatest
\* timestamp below the cutover, first_after a real row of least timestamp at or above
\* it; without one of them the event is skipped and adds nothing.
C8_EndpointsAreReal ==
    [][EventStep
          => IF HasEndpoints
             THEN /\ last_before' # <<>> /\ first_after' # <<>>
                  /\ last_before'[1] \in RealBefore
                  /\ last_before'[1].timestamp = LastBeforeTs
                  /\ first_after'[1] \in RealAfter
                  /\ first_after'[1].timestamp = FirstAfterTs
             ELSE df' = df /\ UNCHANGED <<last_before, first_after>>]_vars

\* both events fall into the same real gap: when the second is handled, points the
\* first has created lie between its last_before and its cutover
C8_Witness ==
    /\ pc = "loop"
    /\ event_index = 3
    /\ Len(returned) = 0
    /\ last_before # <<>>
    /\ ~IsSynthetic(last_before[1])
    /\ \E i, j \in DOMAIN df :
           /\ i # j
           /\ df[i] = df[j]
           /\ IsSynthetic(df[i])
           /\ last_before[1].timestamp < df[i].timestamp
           /\ df[i].timestamp < MIGRATION_DATES[2].timestamp

\* C9: every synthetic point has open = close = price with
\* price = last_before.close + ratio * (first_after.close - last_before.close),
\* high = price * 1.001, low = price * 0.999, price_change = price_change_pct = 0,
\* is_interpolated = True and the label <last_before source>_to_<first_after source>.
C9_SyntheticFields ==
    [][(EventStep /\ HasEndpoints)
          => \A i \in 1 .. Len(Appended) :
                 LET r  == Appended[i]
                     lb == last_before'[1]
                     fa == first_after'[1]
                 IN  /\ r.open = r.close
                     /\ Mul(r.close, Q(GapSeconds))
                          = Add(Mul(lb.close, Q(GapSeconds)),
                                Mul(Q(i * Interval), Sub(fa.close, lb.close)))
                     /\ Mul(r.high, Q(1000)) = Mul(r.close, Q(1001))
                     /\ Mul(r.low, Q(1000)) = Mul(r.close, Q(999))
                     /\ r.price_change = Q(0)
                     /\ r.price_change_pct = Q(0)
                     /\ r.is_interpolated = TRUE
                     /\ r.pool_name = lb.pool_name \o <<"_to_">> \o fa.pool_name]_vars

\* a synthetic point priced strictly between two different closes
C9_Witness ==
    /\ pc = "loop"
    /\ event_index = 2
    /\ Len(returned) = 0
    /\ last_before # <<>>
    /\ \E i \in DOMAIN df :
           /\ IsSynthetic(df[i])
           /\ \/ Lt(last_before[1].close, df[i].close) /\ Lt(df[i].close, first_after[1].close)
              \/ Lt(first_after[1].close, df[i].close) /\ Lt(df[i].close, last_before[1].close)

\* C10 (as claimed): among the synthetic points of one bridged gap the volume is
\* smallest for the point nearest ratio 0.5 and grows toward both real endpoints: a
\* point nearer the midpoint never has more volume than one farther from it.
C10_VolumeValley ==
    [][(EventStep /\ HasEndpoints)
          => \A i, j \in 1 .. Len(Appended) :
                 Abs(2 * i * Interval - GapSeconds) < Abs(2 * j * Interval - GapSeconds)
                     => Le(Appended[i].volume, Appended[j].volume)]_vars

----------------------------------------------------------------------------
(* src/generator/zera_tracker/visualizer.py: the chart markers.             *)
(* create_price_chart (lines 285-297) calls find_local_peaks and            *)
(* find_local_troughs on the frame of one pool, joins the two lists and     *)
(* passes them to filter_by_minimum_distance.  find_local_peaks of          *)
(* src/src/zera_tracker/visualizer.py (lines 65-101) is the same function.  *)
(* Dates are seconds; Python's 0-based indices are kept.                    *)

MaxLen == 6           \* points of the frame handed to the detectors
MaxWindow == 2        \* window is 1 .. MaxWindow
MaxPoints == 3        \* markers handed directly to filter_by_minimum_distance

SecondsPerDay == 86400          \* visualizer.py:171

\* Python: a[i], range(lo, hi), a[lo:hi] for 0 <= lo
PyAt(a, i) == a[i + 1]
PyRange(lo, hi) == [k \in 1 .. (IF hi > lo THEN hi - lo ELSE 0) |-> lo + k - 1]
PySlice(a, lo, hi) == SubSeq(a, lo + 1, Min2(hi, Len(a)))

\* numpy max()/min() of an array, Python max()/min() of a slice
ArrayMax(a) ==
    LET S == {a[k] : k \in DOMAIN a} IN CHOOSE x \in S : \A y \in S : Le(y, x)
ArrayMin(a) ==
    LET S == {a[k] : k \in DOMAIN a} IN CHOOSE x \in S : \A y \in S : Le(x, y)

\* all(v >= s), all(v <= s)
AllGe(v, s) == \A k \in DOMAIN s : Le(s[k], v)
AllLe(v, s) == \A k \in DOMAIN s : Le(v, s[k])

Column(frame, name) == [k \in DOMAIN frame |-> frame[k][name]]

\* lines 77 and 116
TooShortNever(n, w) == FALSE     \* variant: no early return

TooShort(n, w) == n < w * 2

\* lines 88 and 127
Candidates(n, w) == PyRange(w, n - w)

\* lines 85-86 and 124-125
MinProminence(values, pt) == Mul(Sub(ArrayMax(values), ArrayMin(values)), pt)

\* line 90
IsPeakStrict(highs, i, w) ==     \* variant: > instead of >=
    /\ \A k \in DOMAIN PySlice(highs, i - w, i) : Lt(PySlice(highs, i - w, i)[k], PyAt(highs, i))
    /\ \A k \in DOMAIN PySlice(highs, i + 1, i + w + 1) :
           Lt(PySlice(highs, i + 1, i + w + 1)[k], PyAt(highs, i))

IsPeak(highs, i, w) ==
    /\ AllGe(PyAt(highs, i), PySlice(highs, i - w, i))
    /\ AllGe(PyAt(highs, i), PySlice(highs, i + 1, i + w + 1))

\* lines 94-96
PeakProminence(highs, i, w) ==
    LET left_min  == ArrayMin(PySlice(highs, Max2(0, i - w), i))
        right_min == ArrayMin(PySlice(highs, i + 1, Min2(Len(highs), i + w + 1)))
    IN  Sub(PyAt(highs, i), IF Le(right_min, left_min) THEN left_min ELSE right_min)

\* lines 65-101; the frame has at least one row when line 85 is reached with w >= 1
FindLocalPeaks(frame, w, pt) ==
    IF TooShort(Len(frame), w) THEN <<>>
    ELSE LET highs == Column(frame, "high")
             dates == Column(frame, "date")
             min_prominence == MinProminence(highs, pt)
             Accepted(i) == /\ IsPeak(highs, i, w)
                            /\ Le(min_prominence, PeakProminence(highs, i, w))
             found == SelectSeq(Candidates(Len(highs), w), Accepted)
         IN  [k \in DOMAIN found |-> <<PyAt(dates, found[k]), PyAt(highs, found[k])>>]

\* line 129
IsTrough(lows, i, w) ==
    /\ AllLe(PyAt(lows, i), PySlice(lows, i - w, i))
    /\ AllLe(PyAt(lows, i), PySlice(lows, i + 1, i + w + 1))

\* lines 133-135
TroughProminenceOuter(lows, i, w) ==     \* variant: the larger of the two maxima
    LET left_max  == ArrayMax(PySlice(lows, Max2(0, i - w), i))
        right_max == ArrayMax(PySlice(lows, i + 1, Min2(Len(lows), i + w + 1)))
    IN  Sub(IF Le(left_max, right_max) THEN right_max ELSE left_max, PyAt(lows, i))

TroughProminence(lows, i, w) ==
    LET left_max  == ArrayMax(PySlice(lows, Max2(0, i - w), i))
        right_max == ArrayMax(PySlice(lows, i + 1, Min2(Len(lows), i + w + 1)))
    IN  Sub(IF Le(left_max, right_max) THEN left_max ELSE right_max, PyAt(lows, i))

\* lines 104-140
FindLocalTroughs(frame, w, pt) ==
    IF TooShort(Len(frame), w) THEN <<>>
    ELSE LET lows  == Column(frame, "low")
             dates == Column(frame, "date")
             min_prominence == MinProminence(lows, pt)
             Accepted(i) == /\ IsTrough(lows, i, w)
                            /\ Le(min_prominence, TroughProminence(lows, i, w))
             found == SelectSeq(Candidates(Len(lows), w), Accepted)
         IN  [k \in DOMAIN found |-> <<PyAt(dates, found[k]), PyAt(lows, found[k])>>]

\* numpy raises ValueError for max() of an empty array (lines 85, 124) and Python for
\* min()/max() of an empty slice (lines 94-95, 133-134)
EmptyWindow(values, i, w) ==
    \/ PySlice(values, Max2(0, i - w), i) = <<>>
    \/ PySlice(values, i + 1, Min2(Len(values), i + w + 1)) = <<>>
PeaksRaise(frame, w) ==
    /\ ~TooShort(Len(frame), w)
    /\ \/ Len(frame) = 0
       \/ LET highs == Column(frame, "high")
              cand  == Candidates(Len(highs), w)
          IN  \E k \in DOMAIN cand : IsPeak(highs, cand[k], w) /\ EmptyWindow(highs, cand[k], w)
TroughsRaise(frame, w) ==
    /\ ~TooShort(Len(frame), w)
    /\ \/ Len(frame) = 0
       \/ LET lows == Column(frame, "low")
              cand == Candidates(Len(lows), w)
          IN  \E k \in DOMAIN cand : IsTrough(lows, cand[k], w) /\ EmptyWindow(lows, cand[k], w)

\* line 159: sorted() is stable
RECURSIVE SortedByDate(_)
SortedByDate(points) ==
    IF points = <<>> THEN <<>>
    ELSE LET m == CHOOSE i \in DOMAIN points :
                      /\ \A j \in DOMAIN points : points[i][1] <= points[j][1]
                      /\ \A j \in 1 .. i - 1 : points[j][1] # points[i][1]
             rest == [k \in 1 .. Len(points) - 1 |-> IF k < m THEN points[k] ELSE points[k + 1]]
         IN  <<points[m]>> \o SortedByDate(rest)

\* line 171
\* variant: the difference in hours
TimeDiffHours(current_date, last_date) == Div(Q(current_date - last_date), Q(3600))

TimeDiff(current_date, last_date) == Div(Q(current_date - last_date), Q(SecondsPerDay))

\* line 173
FarEnoughStrict(time_diff, mdd) == Lt(mdd, time_diff)      \* variant: > instead of >=

FarEnough(time_diff, mdd) == Le(mdd, time_diff)

\* line 178
MoreExtremeOrEqual(current_value, last_value) ==           \* variant: >= instead of >
    Le(AbsQ(last_value), AbsQ(current_value))

MoreExtreme(current_value, last_value) == Lt(AbsQ(last_value), AbsQ(current_value))

\* lines 162-179: the loop, from the points not yet scanned and the list kept so far
RECURSIVE FilterLoop(_, _, _)
FilterLoop(rest, filtered, mdd) ==
    IF rest = <<>> THEN filtered
    ELSE LET current_point == Head(rest)
             last_point    == filtered[Len(filtered)]
             time_diff     == TimeDiff(current_point[1], last_point[1])
         IN  FilterLoop(Tail(rest),
                        IF FarEnough(time_diff, mdd)
                        THEN Append(filtered, current_point)
                        ELSE IF MoreExtreme(current_point[2], last_point[2])
                             THEN [filtered EXCEPT ![Len(filtered)] = current_point]
                             ELSE filtered,
                        mdd)

\* lines 143-181
FilterByMinimumDistance(points, mdd) ==
    IF Len(points) <= 1 THEN points
    ELSE LET sorted_points == SortedByDate(points)
         IN  FilterLoop(Tail(sorted_points), <<sorted_points[1]>>, mdd)

\* lines 288-293
Tagged(list, kind) == [k \in DOMAIN list |-> <<list[k][1], list[k][2], kind>>]

----------------------------------------------------------------------------
(* Inputs of the chart markers *)

\* (high, low) of a candle
ChartCandles ==
    {[high |-> Q(1), low |-> Q(1)], [high |-> Q(2), low |-> Q(1)], [high |-> Q(5), low |-> Q(3)]}

\* frames of one pool, one candle a day
PoolDfInputs ==
    UNION {{[k \in 1 .. n |-> [date |-> (k - 1) * SecondsPerDay,
                                high |-> c[k].high,
                                low  |-> c[k].low]] : c \in [1 .. n -> ChartCandles]}
           : n \in 0 .. MaxLen}

WindowInputs == 1 .. MaxWindow
ThresholdInputs == {Q(0), Rat(1, 4), Q(1)}
\* min_distance_days: of the chart (line 296), and of a direct call
ChartMinDistanceInputs == {Q(2)}
MinDistanceInputs == {Q(2), Q(5)}

\* marker lists handed to filter_by_minimum_distance, in any order
MarkerDates == {0, 2 * SecondsPerDay, 5 * SecondsPerDay, 7 * SecondsPerDay}
MarkerPoints ==
    {<<d, Q(10), "peak">> : d \in MarkerDates}
        \cup {<<d, Rat(100001, 10000), "peak">> : d \in MarkerDates}
        \cup {<<d, Q(9), "trough">> : d \in {0, 5 * SecondsPerDay}}
MarkerInputs == UNION {[1 .. n -> MarkerPoints] : n \in 0 .. MaxPoints}

----------------------------------------------------------------------------
(* The marker computation *)

\* nothing is being consolidated
PipelineIdle ==
    /\ all_pool_data = <<>>
    /\ MIGRATION_DATES = <<>>
    /\ hours_per_point = DefaultHoursPerPoint
    /\ df = <<>>
    /\ pc = "idle"
    /\ event_index = 1
    /\ last_before = <<>>
    /\ first_after = <<>>
    /\ returned = <<>>

\* either the frame of a pool is about to be marked (line 285), or a list of markers
\* is handed to filter_by_minimum_distance
InitMarkers ==
    /\ PipelineIdle
    /\ RerunIdle
    /\ FetchIdle
    /\ stats = <<>>
    /\ peaks = <<>>
    /\ troughs = <<>>
    /\ filtered_markers = <<>>
    /\ \/ /\ mpc = "chart"
          /\ pool_df \in PoolDfInputs
          /\ window \in WindowInputs
          /\ prominence_threshold \in ThresholdInputs
          /\ min_distance_days \in ChartMinDistanceInputs
          /\ all_markers = <<>>
       \/ /\ mpc = "markers"
          /\ pool_df = <<>>
          /\ window = 0
          /\ prominence_threshold = <<0, 1>>
          /\ min_distance_days \in MinDistanceInputs
          /\ all_markers \in MarkerInputs

\* line 285
FindPeaks ==
    /\ mpc = "chart"
    /\ IF PeaksRaise(pool_df, window)
       THEN mpc' = "raised" /\ peaks' = peaks
       ELSE mpc' = "peaks" /\ peaks' = FindLocalPeaks(pool_df, window, prominence_threshold)
    /\ UNCHANGED <<pool_df, window, prominence_threshold, troughs, all_markers,
                   min_distance_days, filtered_markers>>
    /\ UNCHANGED <<pipeline_vars, stats, rerun_vars, fetch_vars>>

\* line 286
FindTroughs ==
    /\ mpc = "peaks"
    /\ IF TroughsRaise(pool_df, window)
       THEN mpc' = "raised" /\ troughs' = troughs
       ELSE mpc' = "troughs"
            /\ troughs' = FindLocalTroughs(pool_df, window, prominence_threshold)
    /\ UNCHANGED <<pool_df, window, prominence_threshold, peaks, all_markers,
                   min_distance_days, filtered_markers>>
    /\ UNCHANGED <<pipeline_vars, stats, rerun_vars, fetch_vars>>

\* lines 288-293
CombineMarkers ==
    /\ mpc = "troughs"
    /\ all_markers' = Tagged(peaks, "peak") \o Tagged(troughs, "trough")
    /\ mpc' = "markers"
    /\ UNCHANGED <<pool_df, window, prominence_threshold, peaks, troughs,
                   min_distance_days, filtered_markers>>
    /\ UNCHANGED <<pipeline_vars, stats, rerun_vars, fetch_vars>>

\* line 297
FilterMarkers ==
    /\ mpc = "markers"
    /\ filtered_markers' = FilterByMinimumDistance(all_markers, min_distance_days)
    /\ mpc' = "filtered"
    /\ UNCHANGED <<pool_df, window, prominence_threshold, peaks, troughs, all_markers,
                   min_distance_days>>
    /\ UNCHANGED <<pipeline_vars, stats, rerun_vars, fetch_vars>>

NextMarkers ==
    \/ FindPeaks
    \/ FindTroughs
    \/ CombineMarkers
    \/ FilterMarkers

SpecMarkers == InitMarkers /\ [][NextMarkers]_vars

----------------------------------------------------------------------------
(* Vocabulary of the properties of the detectors: the series by 0-based index *)

SeriesLen == Len(pool_df)
HighAt(i) == pool_df[i + 1].high
LowAt(i) == pool_df[i + 1].low
DateAt(i) == pool_df[i + 1].date
PeaksReturned == mpc \in {"peaks", "troughs", "markers", "filtered"} /\ window >= 1
TroughsReturned == mpc \in {"troughs", "markers", "filtered"} /\ window >= 1
GlobalMaxHigh ==
    CHOOSE x \in {HighAt(i) : i \in 0 .. SeriesLen - 1} :
        \A i \in 0 .. SeriesLen - 1 : Le(HighAt(i), x)
GlobalMinHigh ==
    CHOOSE x \in {HighAt(i) : i \in 0 .. SeriesLen - 1} :
        \A i \in 0 .. SeriesLen - 1 : Le(x, HighAt(i))
\* value[i] >= every value of the w points before and of the w points after
WindowMaximum(i) ==
    /\ \A j \in (i - window) .. (i - 1) : Le(HighAt(j), HighAt(i))
    /\ \A j \in (i + 1) .. (i + window) : Le(HighAt(j), HighAt(i))
\* value[i] - max(min(left window), min(right window)) >= p * (global_max - global_min):
\* the difference to the smaller value of each window reaches the threshold
ProminentEnough(i) ==
    LET threshold == Mul(prominence_threshold, Sub(GlobalMaxHigh, GlobalMinHigh))
    IN  /\ \E j \in (i - window) .. (i - 1) : Le(threshold, Sub(HighAt(i), HighAt(j)))
        /\ \E j \in (i + 1) .. (i + window) : Le(threshold, Sub(HighAt(i), HighAt(j)))
ReportedPeaks == {peaks[k] : k \in DOMAIN peaks}
InRange(i) == window <= i /\ i < SeriesLen - window

\* C11: find_local_peaks reports exactly the indices i with w <= i < n-w whose value is
\* >= every value of the w points before and after it and whose prominence
\* value[i] - max(min(left), min(right)) is >= p * (global max - global min): each of
\* them once, as (date, high), and nothing else.
C11_ExactlyTheProminentMaxima ==
    PeaksReturned =>
        LET claimed == {i \in 0 .. SeriesLen - 1 :
                            InRange(i) /\ WindowMaximum(i) /\ ProminentEnough(i)}
        IN  /\ ReportedPeaks = {<<DateAt(i), HighAt(i)>> : i \in claimed}
            /\ Len(peaks) = Cardinality(claimed)

\* a series where one index is reported, one window maximum is rejected for its
\* prominence and one index in range is no window maximum
C11_Witness ==
    /\ mpc = "peaks"
    /\ peaks # <<>>
    /\ \E i \in 0 .. SeriesLen - 1 : InRange(i) /\ WindowMaximum(i) /\ ~ProminentEnough(i)
    /\ \E i \in 0 .. SeriesLen - 1 : InRange(i) /\ ~WindowMaximum(i)

FlatHighs == \A i, j \in 0 .. SeriesLen - 1 : HighAt(i) = HighAt(j)

\* C12 (as claimed): on a flat series, of any length and for any window w >= 1 and any
\* threshold p in [0,1], find_local_peaks reports no peak.
C12_FlatSeriesHasNoPeaks ==
    (PeaksReturned /\ FlatHighs) => peaks = <<>>

\* C13 (as claimed): when two adjacent indices hold the same value and both satisfy the
\* window condition (a plateau), the later one is not marked: only the first qualifying
\* index of the plateau is reported.  Stated for the series that are not flat.
C13_OnlyFirstOfPlateau ==
    (PeaksReturned /\ ~FlatHighs) =>
        \A i \in 0 .. SeriesLen - 2 :
            (/\ InRange(i) /\ InRange(i + 1)
             /\ HighAt(i) = HighAt(i + 1)
             /\ WindowMaximum(i) /\ WindowMaximum(i + 1))
                => <<DateAt(i + 1), HighAt(i + 1)>> \notin ReportedPeaks

\* C14: on a series of fewer than 2w points (the empty one included) find_local_peaks and
\* find_local_troughs return an empty list and raise nothing; so they do on a series of
\* exactly 2w points, where no index i has w <= i < n-w.
C14_ShortSeriesHasNoExtrema ==
    (window >= 1 /\ SeriesLen <= 2 * window) =>
        /\ mpc # "raised"
        /\ PeaksReturned => peaks = <<>>
        /\ TroughsReturned => troughs = <<>>
        /\ \A i \in 0 .. SeriesLen - 1 : ~InRange(i)

\* both detectors have returned on a series of exactly 2w points that rises and falls
C14_Witness ==
    /\ mpc = "troughs"
    /\ window = 2
    /\ SeriesLen = 2 * window
    /\ \E i \in 1 .. SeriesLen - 2 :
           Lt(HighAt(i - 1), HighAt(i)) /\ Lt(HighAt(i + 1), HighAt(i))

\* the candidates in timestamp order (equal timestamps in the order given), 1-based
CandidateRank(j) ==
    1 + Cardinality({i \in DOMAIN all_markers :
                        \/ all_markers[i][1] < all_markers[j][1]
                        \/ all_markers[i][1] = all_markers[j][1] /\ i < j})
CandidateNo(k) == all_markers[CHOOSE j \in DOMAIN all_markers : CandidateRank(j) = k]
\* the candidate is at least min_distance (a number n/d of days) after the kept one
AtLeastMinDistanceAfter(cand, kept) ==
    (cand[1] - kept[1]) * min_distance_days[2] >= min_distance_days[1] * 86400
StrictlyGreaterMagnitude(cand, kept) == Lt(AbsQ(kept[2]), AbsQ(cand[2]))
\* the candidates kept after the first k have been scanned
KeptAfter(n) ==
    LET Kept[k \in 0 .. n] ==
            IF k = 0 THEN <<>>
            ELSE IF k = 1 THEN <<CandidateNo(1)>>
            ELSE LET kept == Kept[k - 1]
                     last == kept[Len(kept)]
                     cand == CandidateNo(k)
                 IN  IF AtLeastMinDistanceAfter(cand, last)
                     THEN Append(kept, cand)
                     ELSE IF StrictlyGreaterMagnitude(cand, last)
                          THEN SubSeq(kept, 1, Len(kept) - 1) \o <<cand>>
                          ELSE kept
    IN  Kept[n]
PeakOf10AtDay0 == <<0, Q(10), "peak">>
PeakOf10_0001AtDay2 == <<2 * 86400, Rat(100001, 10000), "peak">>
TwoClosePeaks ==
    /\ all_markers \in {<<PeakOf10AtDay0, PeakOf10_0001AtDay2>>,
                        <<PeakOf10_0001AtDay2, PeakOf10AtDay0>>}
    /\ min_distance_days = Q(5)

\* C15: filter_by_minimum_distance scans the candidates (peaks and troughs mixed) in
\* timestamp order; the first is kept; a later one is appended when it is at least
\* min_distance after the last kept one, and otherwise replaces the last kept one if and
\* only if its absolute value is strictly greater.  Two peaks at t=0 (10) and t=2 days
\* (10.0001) with min_distance 5 days leave the second alone.
C15_Declustering ==
    mpc = "filtered" =>
        /\ filtered_markers = KeptAfter(Len(all_markers))
        /\ TwoClosePeaks => filtered_markers = <<PeakOf10_0001AtDay2>>

\* the two close peaks of the example have been filtered
C15_Witness == mpc = "filtered" /\ TwoClosePeaks /\ all_markers[1] = PeakOf10AtDay0

----------------------------------------------------------------------------
(* src/consolidator.py: get_summary_stats (lines 169-198), called by main.py:69 on the *)
(* frame interpolate_migration_gaps returned                                          *)

RECURSIVE SumQ(_)
SumQ(values) == IF values = <<>> THEN Q(0) ELSE Add(Head(values), SumQ(Tail(values)))

\* lines 181-182: min() and max() of the date column
MinDate(frame) ==
    LET T == {frame[i].timestamp : i \in DOMAIN frame}
    IN  <<"fromtimestamp", CHOOSE t \in T : \A u \in T : t <= u>>
MaxDate(frame) ==
    LET T == {frame[i].timestamp : i \in DOMAIN frame}
    IN  <<"fromtimestamp", CHOOSE t \in T : \A u \in T : u <= t>>

\* lines 192-194: len(df[df['pool_name'] == name])
PoolCount(frame, name) ==
    LET OfPool(r) == r.pool_name = <<name>> IN Len(SelectSeq(frame, OfPool))

\* lines 179-196, for a frame with at least one row
GetSummaryStats(frame) ==
    LET first == frame[1]
        last  == frame[Len(frame)]
    IN  [total_days       |-> Len(frame),
         start_date       |-> MinDate(frame),
         end_date         |-> MaxDate(frame),
         start_price      |-> first.close,
         end_price        |-> last.close,
         total_change     |-> Sub(last.close, first.close),
         total_change_pct |-> Mul(Div(Sub(last.close, first.close), first.close), Q(100)),
         highest_price    |-> ArrayMax(Column(frame, "high")),
         lowest_price     |-> ArrayMin(Column(frame, "low")),
         total_volume     |-> SumQ(Column(frame, "volume")),
         avg_daily_volume |-> Div(SumQ(Column(frame, "volume")), Q(Len(frame))),
         pools            |-> [mon3y      |-> PoolCount(frame, "mon3y"),
                               zera_pool2 |-> PoolCount(frame, "zera_pool2"),
                               zera_pool3 |-> PoolCount(frame, "zera_pool3")]]

----------------------------------------------------------------------------
(* Inputs of the summary *)

MaxStatsRows == 3     \* total number of OHLCV entries over all pools

\* the pool keys of src/generator/config.py
GeneratorPoolNames == <<"mon3y", "zera_Raydium", "zera_Meteora">>

GeneratorPOOLS ==
    [p \in {"mon3y", "zera_Raydium", "zera_Meteora"} |->
        CASE p = "mon3y"        -> [address |-> "95AT5r4i", token_symbol |-> "M0N3Y"]
          [] p = "zera_Raydium" -> [address |-> "Nn9VMHJT", token_symbol |-> "ZERA"]
          [] p = "zera_Meteora" -> [address |-> "6oUJD1EH", token_symbol |-> "ZERA"]]

\* the two configurations of the repository
ConfigInputs ==
    {[names |-> PoolNames, pools |-> POOLS],
     [names |-> GeneratorPoolNames, pools |-> GeneratorPOOLS]}

\* the candle of the p-th pool at tick k: the pools are separate markets, so entries of
\* two pools at one timestamp differ in their close
PoolCandle(p, k) ==
    LET close == (CandleClose(k) + p - 1) % 5
    IN  <<Q(CandleOpen(k)),
          Q(Max2(CandleOpen(k), close) + 1),
          Q(Min2(CandleOpen(k), close)),
          Q(close),
          Q(10 * ((k + 1) % 3))>>

PoolOhlcvList(p, T) ==
    LET ks == AscendingSeq(T) IN [i \in 1 .. Len(ks) |-> <<Ts(ks[i])>> \o PoolCandle(p, ks[i])]

\* all_pool_data in the order of the configuration
StatsPoolDataInputs ==
    { [i \in 1 .. 3 |->
          [pool_name |-> c.names[i],
           info      |-> c.pools[c.names[i]],
           data      |-> IF Ts3[i] = {} THEN None ELSE Response(PoolOhlcvList(i, Ts3[i]))]] :
      <<c, Ts3>> \in { <<c, Ts3>> \in ConfigInputs \X ((SUBSET Ticks) \X (SUBSET Ticks) \X (SUBSET Ticks)) :
                         Cardinality(Ts3[1]) + Cardinality(Ts3[2]) + Cardinality(Ts3[3])
                             <= MaxStatsRows } }

\* the row create_unified_dataframe and line 84 make of the entry of the p-th pool at tick k
RealRowOf(p, k) ==
    WithFlag(WithPriceChange(
                 AllRecords(<<[pool_name |-> PoolNames[p],
                               info      |-> POOLS[PoolNames[p]],
                               data      |-> Response(PoolOhlcvList(p, {k}))]>>)[1]),
             FALSE)

\* Timelines without a real point: the empty frame, and the synthetic rows of a bridged
\* gap on their own (df[df['is_interpolated']])
SyntheticOnlyFrames ==
    {<<>>} \cup
    {NewRows(RealRowOf(1, a), RealRowOf(2, b), DefaultHoursPerPoint) :
        <<a, b>> \in {<<a, b>> \in Ticks \X Ticks : a < b}}

----------------------------------------------------------------------------
(* The summary: main.py lines 57-69.  add_migration_markers (line 59) adds the  *)
(* migration_event column, which get_summary_stats does not read.               *)

\* either the pipeline of main.py is about to run, or get_summary_stats is handed a
\* Timeline without a real point
InitStats ==
    /\ MarkersIdle
    /\ RerunIdle
    /\ FetchIdle
    /\ stats = <<>>
    /\ hours_per_point \in HoursPerPointInputs
    /\ event_index = 1
    /\ last_before = <<>>
    /\ first_after = <<>>
    /\ returned = <<>>
    /\ \/ /\ pc = "start"
          /\ all_pool_data \in StatsPoolDataInputs
          /\ MIGRATION_DATES \in MigrationInputs
          /\ df = <<>>
       \/ /\ pc = "frame"
          /\ all_pool_data = <<>>
          /\ MIGRATION_DATES = <<>>
          /\ df \in SyntheticOnlyFrames

\* main.py:58: the one call of interpolate_migration_gaps
InterpolateOnce == InterpolateBegin /\ returned = <<>>

\* main.py:69.  On a frame without rows df.iloc[0] raises IndexError (line 183).
SummaryStats ==
    /\ pc \in {"returned", "frame"}
    /\ IF df = <<>>
       THEN pc' = "raised" /\ stats' = stats
       ELSE pc' = "stats" /\ stats' = <<GetSummaryStats(df)>>
    /\ UNCHANGED <<all_pool_data, MIGRATION_DATES, hours_per_point, df, event_index,
                   last_before, first_after, returned>>
    /\ UNCHANGED <<marker_vars, rerun_vars, fetch_vars>>

NextStats ==
    \/ CreateUnifiedDataframe
    \/ InterpolateOnce
    \/ InterpolateEvent
    \/ InterpolateReturn
    \/ SummaryStats

SpecStats == InitStats /\ [][NextStats]_vars

----------------------------------------------------------------------------
(* Vocabulary of the properties of the summary *)

StatsReturned == pc = "stats"
Summary == stats[1]
\* the non-synthetic points of the Timeline, in its order
NonSynthetic == SelectSeq(df, IsReal)
SyntheticCount == Len(df) - Len(NonSynthetic)

\* C16 (as claimed): the point count, global high and low, total volume and mean volume
\* get_summary_stats returns are those of the non-synthetic points of the Timeline alone:
\* synthetic points in the Timeline do not change them.
C16_StatsOverRealPointsOnly ==
    (StatsReturned /\ NonSynthetic # <<>>) =>
        /\ Summary.total_days = Len(NonSynthetic)
        /\ Summary.highest_price = ArrayMax(Column(NonSynthetic, "high"))
        /\ Summary.lowest_price = ArrayMin(Column(NonSynthetic, "low"))
        /\ Summary.total_volume = SumQ(Column(NonSynthetic, "volume"))
        /\ Summary.avg_daily_volume
               = Div(SumQ(Column(NonSynthetic, "volume")), Q(Len(NonSynthetic)))

\* C17 (as claimed): for a Timeline the interpolator produced, start_price and end_price
\* are the close of its first and of its last non-synthetic point, wherever its
\* synthetic points sort.
C17_StartEndAreRealCloses ==
    (StatsReturned /\ returned # <<>>) =>
        /\ Summary.start_price = NonSynthetic[1].close
        /\ Summary.end_price = NonSynthetic[Len(NonSynthetic)].close

\* C18 (as claimed): on a Timeline without a non-synthetic point (empty, or all
\* synthetic) get_summary_stats fails and returns no statistics record.
C18_NoRecordWithoutRealPoints ==
    StatsReturned => NonSynthetic # <<>>

\* C19 (as claimed): when the close of the first point is 0, get_summary_stats raises
\* an error and returns no statistics record, so no record holds a NaN or an infinite
\* total_change_pct.
C19_ZeroStartCloseIsAnError ==
    StatsReturned => (df[1].close # Q(0) /\ IsFinite(Summary.total_change_pct))

\* the source identifiers of the non-synthetic points
SourcesPresent == {NonSynthetic[i].pool_name[1] : i \in DOMAIN NonSynthetic}
PointsOfSource(name) ==
    Cardinality({i \in DOMAIN NonSynthetic : NonSynthetic[i].pool_name = <<name>>})

\* C20 (as claimed): whatever source identifiers are configured, the record holds a count
\* for every source identifier of the Timeline, which is the number of its points, and
\* the counts add up to the number of non-synthetic points.
C20_CountPerSource ==
    StatsReturned =>
        /\ \A name \in SourcesPresent :
               /\ name \in DOMAIN Summary.pools
               /\ Summary.pools[name] = PointsOfSource(name)
        /\ Summary.pools.mon3y + Summary.pools.zera_pool2 + Summary.pools.zera_pool3
               = Len(NonSynthetic)

----------------------------------------------------------------------------
(* Vocabulary of the properties of the merge *)

MergeStep == pc = "start" /\ pc' # "start"
ReturnStep == pc = "loop" /\ pc' = "returned"
\* the sources that have data, and the entries supplied: <<source, raw entry>>
SourcesWithData == {i \in DOMAIN all_pool_data : ~all_pool_data[i].data.is_none}
SuppliedEntries ==
    UNION {{<<all_pool_data[i].pool_name, all_pool_data[i].data.ohlcv_list[j]>> :
               j \in DOMAIN all_pool_data[i].data.ohlcv_list} : i \in SourcesWithData}
EntryOf(r) == <<r.pool_name[1], <<r.timestamp, r.open, r.high, r.low, r.close, r.volume>>>>

\* C21 (as claimed): whatever the input mapping, create_unified_dataframe completes, and
\* its frame holds exactly the records of the sources that have data, each tagged with
\* its source; a source without data (data = None) is skipped and aborts nothing.
C21_SourcesWithoutDataAreSkipped ==
    [][MergeStep =>
          /\ pc' = "merged"
          /\ {EntryOf(df'[i]) : i \in DOMAIN df'} = SuppliedEntries
          /\ Len(df') = Cardinality(SuppliedEntries)]_vars

\* C22: the merge of an input with records does not abort; every record gets
\* price_change = close - open; a record with open = 0 gets a non-finite
\* price_change_pct (NaN or an infinity) and is otherwise as supplied; every other
\* record gets price_change_pct = price_change / open * 100.
C22_ZeroOpenYieldsSentinel ==
    [][(MergeStep /\ SuppliedEntries # {}) =>
          /\ pc' = "merged"
          /\ \A i \in DOMAIN df' :
                 /\ EntryOf(df'[i]) \in SuppliedEntries
                 /\ df'[i].price_change = Sub(df'[i].close, df'[i].open)
                 /\ df'[i].open = Q(0) => ~IsFinite(df'[i].price_change_pct)
                 /\ df'[i].open # Q(0) =>
                        /\ IsFinite(df'[i].price_change_pct)
                        /\ Mul(df'[i].price_change_pct, df'[i].open)
                               = Mul(df'[i].price_change, Q(100))]_vars

\* a merged frame with a record of open 0 and a record of another open
C22_Witness ==
    /\ pc = "merged"
    /\ \E i, j \in DOMAIN df :
           /\ df[i].open = Q(0) /\ ~IsFinite(df[i].price_change_pct)
           /\ df[j].open # Q(0) /\ df[j].price_change_pct # Q(0)

\* the rows in ascending timestamp order, rows of one timestamp in the order they have
RECURSIVE StablySorted(_)
StablySorted(rows) ==
    IF rows = <<>> THEN <<>>
    ELSE LET m == CHOOSE i \in DOMAIN rows :
                      /\ \A j \in DOMAIN rows : rows[i].timestamp <= rows[j].timestamp
                      /\ \A j \in 1 .. i - 1 : rows[j].timestamp # rows[i].timestamp
         IN  <<rows[m]>>
                 \o StablySorted([k \in 1 .. Len(rows) - 1 |->
                                     IF k < m THEN rows[k] ELSE rows[k + 1]])

\* C23 (as claimed): sorting is stable: records of equal timestamp keep, in the merged
\* frame and in the frame the interpolator returns, the relative order in which they
\* were supplied (source iteration order, then order within the source).
C23_StableSort ==
    [][/\ (MergeStep /\ pc' = "merged") =>
              LET supplied == StablySorted(AllRecords(all_pool_data))
              IN  df' = [i \in DOMAIN supplied |-> WithPriceChange(supplied[i])]
       /\ ReturnStep => df' = StablySorted(df)]_vars

-----------------------------------------------------------------------------
(* Two runs of the program on the same inputs (main.py:57-58, once per run) *)

InitTwoRuns ==
    /\ all_pool_data \in AllPoolDataInputs
    /\ saved_input = all_pool_data
    /\ first_timeline = <<>>
    /\ MIGRATION_DATES \in MigrationInputs
    /\ hours_per_point \in HoursPerPointInputs
    /\ df = <<>>
    /\ pc = "start"
    /\ event_index = 1
    /\ last_before = <<>>
    /\ first_after = <<>>
    /\ returned = <<>>
    /\ stats = <<>>
    /\ MarkersIdle
    /\ FetchIdle

\* the second run: the same all_pool_data, the same config, a fresh frame
RunAgain ==
    /\ pc = "returned"
    /\ first_timeline = <<>>
    /\ first_timeline' = <<df>>
    /\ all_pool_data' = saved_input
    /\ df' = <<>>
    /\ pc' = "start"
    /\ event_index' = 1
    /\ last_before' = <<>>
    /\ first_after' = <<>>
    /\ returned' = <<>>
    /\ UNCHANGED <<MIGRATION_DATES, hours_per_point, stats, marker_vars, saved_input,
                   fetch_vars>>

NextTwoRuns ==
    \/ CreateUnifiedDataframe
    \/ InterpolateOnce
    \/ InterpolateEvent
    \/ InterpolateReturn
    \/ RunAgain

SpecTwoRuns == InitTwoRuns /\ [][NextTwoRuns]_vars

SecondRunReturned == pc = "returned" /\ first_timeline # <<>>

-----------------------------------------------------------------------------
(* Troughs against peaks *)

Neg(x) == Sub(Q(0), x)
\* the series of lows negated, offered to find_local_peaks as its 'high' column
NegatedFrame ==
    [k \in DOMAIN pool_df |->
        [date |-> pool_df[k].date, high |-> Neg(pool_df[k].low), low |-> Neg(pool_df[k].high)]]
PeaksOfNegated == FindLocalPeaks(NegatedFrame, window, prominence_threshold)
\* indices that pass the window test of line 129 whatever their prominence
WindowTroughs ==
    {i \in window .. (SeriesLen - window - 1) : IsTrough(Column(pool_df, "low"), i, window)}

\* C25: find_local_troughs reports exactly the points find_local_peaks reports on
\* the negated series, for every series, window and threshold: the same dates
\* (indices), and each reported value is the negation of the peak's.
C25_TroughsMirrorPeaks ==
    (mpc = "troughs" /\ window >= 1) =>
        LET mirrored == PeaksOfNegated
        IN  /\ Len(troughs) = Len(mirrored)
            /\ \A k \in DOMAIN troughs :
                   /\ troughs[k][1] = mirrored[k][1]
                   /\ troughs[k][2] = Neg(mirrored[k][2])

\* a trough is reported and another window minimum is rejected for its prominence
C25_Witness ==
    /\ mpc = "troughs" /\ window >= 1
    /\ troughs # <<>>
    /\ Len(troughs) < Cardinality(WindowTroughs)

-----------------------------------------------------------------------------
(* Real points through interpolate_migration_gaps *)

BeginStep == pc \in {"merged", "returned"} /\ pc' = "loop"
\* timestamp, open, high, low, close, volume and source identifier of a row
CoreOf(r) == <<r.timestamp, r.open, r.high, r.low, r.close, r.volume, r.pool_name>>
CoreBag(rows) ==
    [c \in {CoreOf(rows[i]) : i \in DOMAIN rows} |->
        Cardinality({i \in DOMAIN rows : CoreOf(rows[i]) = c})]

\* C27: interpolate_migration_gaps never removes or alters a real point.  Line 84
\* keeps every input row, its timestamp, open, high, low, close, volume and source
\* unchanged, and flags it not synthetic; an event of the loop leaves the rows that
\* are there as they are and appends only rows flagged synthetic; the final sort
\* returns the same rows.  So every row of the output that is not an input row is
\* flagged synthetic.
C27_RealPointsKept ==
    [][/\ BeginStep =>
            /\ CoreBag(df') = CoreBag(df)
            /\ \A i \in DOMAIN df' : df'[i].is_interpolated = FALSE
       /\ EventStep =>
            /\ Extends
            /\ \A i \in DOMAIN Appended : Appended[i].is_interpolated = TRUE
       /\ ReturnStep => FrameBag(df') = FrameBag(df)]_vars

\* a returned frame that holds input rows and bridge rows
C27_Witness ==
    /\ pc = "returned"
    /\ \E i, j \in DOMAIN df : df[i].is_interpolated = FALSE /\ df[j].is_interpolated = TRUE
    /\ \E i \in DOMAIN df : df[i].is_interpolated = FALSE /\ df[i].volume # Q(0)

-----------------------------------------------------------------------------
(* The bridge of one run *)

Flagged(frame) == SelectSeq(frame, IsSynthetic)

\* C28: within a single run of interpolate_migration_gaps each gap is bridged at
\* most once: no two synthetic points of the output have the same timestamp, even
\* when two or more migration events fall between the same pair of real points.
C28_GapBridgedOnce ==
    (pc = "returned" /\ Len(returned) = 1) =>
        \A i, j \in DOMAIN Flagged(df) :
            i # j => Flagged(df)[i].timestamp # Flagged(df)[j].timestamp

-----------------------------------------------------------------------------
(* Spacing across a bridged gap *)

\* the real points on both sides of the cutover of event e, in the returned frame
RealBeforeOf(e) == {r \in RealRows : r.timestamp < MIGRATION_DATES[e].timestamp}
RealAfterOf(e) == {r \in RealRows : r.timestamp >= MIGRATION_DATES[e].timestamp}
LastBeforeOf(e) ==
    CHOOSE t \in {r.timestamp : r \in RealBeforeOf(e)} :
        \A r \in RealBeforeOf(e) : r.timestamp <= t
FirstAfterOf(e) ==
    CHOOSE t \in {r.timestamp : r \in RealAfterOf(e)} :
        \A r \in RealAfterOf(e) : t <= r.timestamp
Between(e, t) == LastBeforeOf(e) <= t /\ t <= FirstAfterOf(e)
Bridged(e) ==
    /\ RealBeforeOf(e) # {} /\ RealAfterOf(e) # {}
    /\ FirstAfterOf(e) - LastBeforeOf(e) > Interval

\* C29: after interpolate_migration_gaps returns, for every migration event with
\* real points on both sides, any two consecutive Timeline points between
\* last_before and first_after (inclusive) are at most hours_per_point * 3600
\* seconds apart.
C29_SpacingWithinInterval ==
    pc = "returned" =>
        \A e \in DOMAIN MIGRATION_DATES :
            (RealBeforeOf(e) # {} /\ RealAfterOf(e) # {}) =>
                \A i \in 1 .. (Len(df) - 1) :
                    (Between(e, df[i].timestamp) /\ Between(e, df[i + 1].timestamp))
                        => df[i + 1].timestamp - df[i].timestamp <= Interval

\* a gap of more than one interval was bridged, and one of its steps is shorter
\* than the interval
C29_Witness ==
    /\ pc = "returned"
    /\ \E e \in DOMAIN MIGRATION_DATES :
           /\ Bridged(e)
           /\ \E i \in 1 .. (Len(df) - 1) :
                  /\ Between(e, df[i].timestamp) /\ Between(e, df[i + 1].timestamp)
                  /\ df[i + 1].timestamp - df[i].timestamp < Interval
                  /\ df[i + 1].timestamp - df[i].timestamp > 0

-----------------------------------------------------------------------------
(* The output of filter_by_minimum_distance *)

\* the candidates in timestamp order, equal timestamps in the order given
CandidatesInOrder == [k \in DOMAIN all_markers |-> CandidateNo(k)]
RECURSIVE IsSubsequence(_, _)
IsSubsequence(a, b) ==
    IF a = <<>> THEN TRUE
    ELSE IF b = <<>> THEN FALSE
    ELSE IF Head(a) = Head(b) THEN IsSubsequence(Tail(a), Tail(b))
    ELSE IsSubsequence(a, Tail(b))

\* C30: for any candidate list the output of filter_by_minimum_distance is a
\* selection of the candidates in timestamp order (a subsequence of the candidates
\* ordered by timestamp), every two consecutive kept points are at least
\* min_distance apart, and filtering the output again returns it unchanged.
C30_SpacedSubsequence ==
    mpc = "filtered" =>
        /\ IsSubsequence(filtered_markers, CandidatesInOrder)
        /\ \A k \in 1 .. (Len(filtered_markers) - 1) :
               /\ filtered_markers[k][1] <= filtered_markers[k + 1][1]
               /\ AtLeastMinDistanceAfter(filtered_markers[k + 1], filtered_markers[k])
        /\ FilterByMinimumDistance(filtered_markers, min_distance_days) = filtered_markers

\* three candidates given out of order: the second in time replaced the first, the
\* third was kept at a distance
C30_Witness ==
    /\ mpc = "filtered"
    /\ Len(all_markers) = 3
    /\ Len(filtered_markers) = 2
    /\ all_markers # CandidatesInOrder
    /\ filtered_markers[1] = CandidateNo(2)
    /\ filtered_markers[2] = CandidateNo(3)

-----------------------------------------------------------------------------
(* src/fetcher.py: fetch_pool_data (lines 11-41; src/generator/zera_tracker/fetcher.py *)
(* lines 14-44 are the same code) and fetch_all_pools (lines 44-73)                   *)

MaxRetries == 3
DefaultRetries == 3

\* line 25: for attempt in range(retries)
AttemptInRange(a, r) == a < r

\* line 36: if attempt < retries - 1
BeforeLastAttemptAlways(a, r) == TRUE      \* variant: every failure waits and goes on

BeforeLastAttempt(a, r) == a < r - 1

\* the decoded JSON of a response (line 31); a body may lack data.attributes.ohlcv_list
Body(p, well_formed) ==
    [is_none     |-> FALSE,
     well_formed |-> well_formed,
     ohlcv_list  |-> IF well_formed THEN PoolOhlcvList(p, {0, 1}) ELSE <<>>]
NoneReturned == [is_none |-> TRUE, well_formed |-> FALSE, ohlcv_list |-> <<>>]

\* lines 57-61 and 64-68: the entry of a pool.  Line 61 reads
\* data['data']['attributes']['ohlcv_list'] inside the try; when that raises
\* (None, or a body without the key) line 64 replaces the entry
Entry(p, outcome) ==
    [pool_name |-> PoolNames[p],
     info      |-> POOLS[PoolNames[p]],
     data      |-> IF outcome # <<>> /\ ~outcome[1].is_none /\ outcome[1].well_formed
                   THEN Response(outcome[1].ohlcv_list)
                   ELSE None]

InitFetch ==
    /\ PipelineIdle
    /\ MarkersIdle
    /\ RerunIdle
    /\ stats = <<>>
    /\ fpc = "call"
    /\ attempt = 0
    /\ fetch_log = <<>>
    /\ fetched = <<>>
    /\ \/ caller = "fetch_all_pools" /\ pool_index = 1 /\ retries = DefaultRetries
       \/ caller = "direct" /\ pool_index \in DOMAIN PoolNames /\ retries \in 0 .. MaxRetries

\* one iteration of the loop of line 25: a response (lines 28-32), or a
\* RequestException (lines 34-39: connection error, timeout, HTTP error status,
\* undecodable body)
RequestAttempt ==
    /\ fpc = "call"
    /\ AttemptInRange(attempt, retries)
    /\ \/ \E well_formed \in BOOLEAN :
              /\ fetch_log' = Append(fetch_log, <<pool_index, "response", attempt,
                                                  Body(pool_index, well_formed)>>)
              /\ fetched' = <<Body(pool_index, well_formed)>>
              /\ fpc' = "returned"
              /\ attempt' = attempt
       \/ IF BeforeLastAttempt(attempt, retries)
          THEN /\ fetch_log' = fetch_log \o <<<<pool_index, "RequestException", attempt>>,
                                               <<pool_index, "sleep(2)", attempt>>>>
               /\ attempt' = attempt + 1
               /\ UNCHANGED <<fpc, fetched>>
          ELSE /\ fetch_log' = fetch_log \o <<<<pool_index, "RequestException", attempt>>,
                                               <<pool_index, "raise", attempt>>>>
               /\ fpc' = "raised"
               /\ UNCHANGED <<attempt, fetched>>
    /\ UNCHANGED <<pool_index, retries, caller>>
    /\ UNCHANGED <<pipeline_vars, stats, marker_vars, rerun_vars>>

\* line 41: the loop ended without a return or a raise
LoopExhausted ==
    /\ fpc = "call"
    /\ ~AttemptInRange(attempt, retries)
    /\ fetched' = <<NoneReturned>>
    /\ fpc' = "returned"
    /\ UNCHANGED <<pool_index, attempt, retries, fetch_log, caller>>
    /\ UNCHANGED <<pipeline_vars, stats, marker_vars, rerun_vars>>

\* lines 53-71: the rest of the iteration of fetch_all_pools once fetch_pool_data has
\* returned or raised, then the next pool (line 53) or the return of line 73
StoreEntry ==
    /\ caller = "fetch_all_pools"
    /\ fpc \in {"returned", "raised"}
    /\ all_pool_data' =
           Append(all_pool_data, Entry(pool_index, IF fpc = "returned" THEN fetched ELSE <<>>))
    /\ fetch_log' = Append(fetch_log, <<pool_index, "sleep(1)", attempt>>)
    /\ fetched' = <<>>
    /\ attempt' = 0
    /\ IF pool_index < Len(PoolNames)
       THEN pool_index' = pool_index + 1 /\ fpc' = "call"
       ELSE pool_index' = pool_index /\ fpc' = "done"
    /\ UNCHANGED <<retries, caller>>
    /\ UNCHANGED <<MIGRATION_DATES, hours_per_point, df, pc, event_index, last_before,
                   first_after, returned>>
    /\ UNCHANGED <<stats, marker_vars, rerun_vars>>

NextFetch ==
    \/ RequestAttempt
    \/ LoopExhausted
    \/ StoreEntry

SpecFetch == InitFetch /\ [][NextFetch]_vars

-----------------------------------------------------------------------------
(* Vocabulary and property of the fetcher *)

\* what happened while pool p was being fetched, in order
PoolLog(p) == LET OfPool(e) == e[1] = p IN SelectSeq(fetch_log, OfPool)
IsRequest(e) == e[2] \in {"response", "RequestException"}
Requests(p) == SelectSeq(PoolLog(p), IsRequest)
Failures(p) == {k \in DOMAIN Requests(p) : Requests(p)[k][2] = "RequestException"}
Raised(p) == \E k \in DOMAIN PoolLog(p) : PoolLog(p)[k][2] = "raise"
Succeeded(p) == \E k \in DOMAIN Requests(p) : Requests(p)[k][2] = "response"

\* C26: fetch_pool_data makes at most `retries` request attempts; a successful
\* attempt is the last one and its response is what the call returns; a failed
\* attempt that is not the last is followed by a wait and then the next attempt; the
\* call raises exactly when `retries` >= 1 attempts have failed in a row, and not
\* before.  fetch_all_pools stores data = None for a pool whose fetch raised, goes on
\* with the next pool, and returns one entry per configured pool, in their order.
C26_RetriesThenNone ==
    /\ \A p \in DOMAIN PoolNames :
          /\ Len(Requests(p)) <= retries
          /\ \A k \in DOMAIN Requests(p) :
                 Requests(p)[k][2] = "response" => k = Len(Requests(p))
          /\ \A k \in DOMAIN PoolLog(p) :
                 /\ (PoolLog(p)[k][2] = "RequestException" /\ k < Len(PoolLog(p)))
                        => PoolLog(p)[k + 1][2] \in {"sleep(2)", "raise"}
                 /\ (PoolLog(p)[k][2] = "sleep(2)" /\ k < Len(PoolLog(p)))
                        => IsRequest(PoolLog(p)[k + 1])
          /\ Raised(p) <=> (retries >= 1 /\ Cardinality(Failures(p)) = retries)
          /\ Raised(p) => ~Succeeded(p)
    /\ (fpc = "returned" /\ Succeeded(pool_index))
          => fetched = <<Requests(pool_index)[Len(Requests(pool_index))][4]>>
    /\ (fpc = "returned" /\ ~fetched[1].is_none) => Succeeded(pool_index)
    /\ fpc = "raised" => Raised(pool_index)
    /\ caller = "fetch_all_pools" =>
          /\ fpc \in {"returned", "raised"} => ENABLED StoreEntry
          /\ Len(all_pool_data) = IF fpc = "done" THEN Len(PoolNames) ELSE pool_index - 1
          /\ \A i \in DOMAIN all_pool_data :
                 /\ all_pool_data[i].pool_name = PoolNames[i]
                 /\ Requests(i) # <<>>
                 /\ Raised(i) => all_pool_data[i].data = None
                 /\ all_pool_data[i].data # None => Succeeded(i)

\* fetch_all_pools has returned: the first pool failed three times and has
\* data = None, the second was fetched at its second attempt
C26_Witness ==
    /\ fpc = "done"
    /\ Raised(1) /\ all_pool_data[1].data = None
    /\ Len(Requests(2)) = 2 /\ all_pool_data[2].data # None
    /\ Len(all_pool_data) = Len(PoolNames)

====
